---------------------------- MODULE Spec2Model ----------------------------
(***************************************************************************)
(* Model of the PDF question-answering server of src/src/index.ts:         *)
(* the in-memory vector store, the /upload handler (extract, embed per     *)
(* page, store), the /ask handler (lookup, embed the question, rank by     *)
(* cosine similarity, stream the generated answer while scanning each      *)
(* fragment for the citation marker).                                      *)
(*                                                                         *)
(* Text is a sequence of one-character strings.  A handler runs            *)
(* atomically between two awaits (Node runs one callback at a time), so    *)
(* every action is the code from one await to the next.                    *)
(***************************************************************************)
EXTENDS Integers, Sequences, FiniteSets, TLC

(***************************************************************************)
(* Text helpers                                                            *)
(***************************************************************************)

\* The characters the regular expression class \s and String.trim() treat
\* as white space, among the characters the model uses.
IsWs(c) == c \in {" ", "\n", "\t"}

\* The literal of the pattern /Citations:.../i, lower-cased.
Keyword == <<"c", "i", "t", "a", "t", "i", "o", "n", "s", ":">>

\* Case folding of the i flag, on the letters of the model's alphabet.
Lower(c) ==
    CASE c = "C" -> "c"
      [] c = "I" -> "i"
      [] c = "T" -> "t"
      [] c = "A" -> "a"
      [] c = "O" -> "o"
      [] c = "N" -> "n"
      [] c = "S" -> "s"
      [] OTHER -> c

\* The first position at or after p that holds no white space (Len(s)+1 when
\* the white space runs to the end): what a greedy \s* consumes from p.
SkipWs(s, p) ==
    CHOOSE j \in p..(Len(s) + 1) :
        /\ \A k \in p..(j - 1) : IsWs(s[k])
        /\ (j = Len(s) + 1 \/ ~IsWs(s[j]))

\* The last position before which only white space follows, scanning back
\* from the end: the end of the text String.trim() keeps.
TrimEnd(s) ==
    CHOOSE j \in 0..Len(s) :
        /\ \A k \in (j + 1)..Len(s) : IsWs(s[k])
        /\ (j = 0 \/ ~IsWs(s[j]))

\* String.prototype.trim
Trim(s) ==
    IF SkipWs(s, 1) > Len(s) THEN <<>> ELSE SubSeq(s, SkipWs(s, 1), TrimEnd(s))

\* s.replace(/\s+/g, " "): every maximal run of white space becomes one space.
RECURSIVE CollapseFrom(_, _)
CollapseFrom(s, p) ==
    IF p > Len(s) THEN <<>>
    ELSE IF IsWs(s[p]) THEN <<" ">> \o CollapseFrom(s, SkipWs(s, p))
    ELSE <<s[p]>> \o CollapseFrom(s, p + 1)

\* text.replace(/\s+/g, " ").trim()
Normalize(s) == Trim(CollapseFrom(s, 1))

\* Whether pat occurs in s as a contiguous substring
Contains(s, pat) ==
    \E p \in 1..(Len(s) - Len(pat) + 1) : SubSeq(s, p, p + Len(pat) - 1) = pat

\* The concatenation of a sequence of texts
RECURSIVE Concat(_)
Concat(ss) == IF ss = <<>> THEN <<>> ELSE Head(ss) \o Concat(Tail(ss))

(***************************************************************************)
(* The citation marker pattern of the streaming loop (index.ts 227, 236)  *)
(***************************************************************************)

NoMatch == [ok |-> FALSE, from |-> 0, to |-> 0, group |-> <<>>]

\* The match of the pattern that starts exactly at position p, if any: the
\* keyword (any case), white space, "[", white space, then the group, which
\* being greedy runs up to the first "]" (the trailing \s* is left nothing).
MatchAt(s, p) ==
    IF ~(/\ p + Len(Keyword) - 1 <= Len(s)
         /\ \A i \in 1..Len(Keyword) : Lower(s[p + i - 1]) = Keyword[i])
    THEN NoMatch
    ELSE LET j == SkipWs(s, p + Len(Keyword))
         IN  IF j > Len(s) \/ s[j] # "[" THEN NoMatch
             ELSE LET k == SkipWs(s, j + 1)
                      closers == {e \in k..Len(s) : s[e] = "]"}
                  IN  IF closers = {} THEN NoMatch
                      ELSE LET e == CHOOSE x \in closers :
                                        \A y \in closers : x <= y
                           IN  [ok |-> TRUE, from |-> p, to |-> e,
                                group |-> SubSeq(s, k, e - 1)]

\* The leftmost match that starts at or after position p
FirstMatch(s, p) ==
    LET starts == {q \in p..Len(s) : MatchAt(s, q).ok}
    IN  IF starts = {} THEN NoMatch
        ELSE MatchAt(s, CHOOSE q \in starts : \A r \in starts : q <= r)

\* text.replace(/.../gi, ""): every match removed, scanning left to right
RECURSIVE RemoveFrom(_, _)
RemoveMatch(s, p, m) ==
    IF ~m.ok THEN SubSeq(s, p, Len(s))
    ELSE SubSeq(s, p, m.from - 1) \o RemoveFrom(s, m.to + 1)

RemoveFrom(s, p) == RemoveMatch(s, p, FirstMatch(s, p))

cleanText(text) == RemoveFrom(text, 1)

\* group.split(",")
RECURSIVE SplitFrom(_, _)
SplitFrom(s, p) ==
    LET commas == {q \in p..Len(s) : s[q] = ","}
    IN  IF commas = {} THEN <<SubSeq(s, p, Len(s))>>
        ELSE LET c == CHOOSE q \in commas : \A r \in commas : q <= r
             IN  <<SubSeq(s, p, c - 1)>> \o SplitFrom(s, c + 1)

Split(s) == SplitFrom(s, 1)

Digits == {"0", "1", "2", "3", "4", "5", "6", "7", "8", "9"}

DigitVal(c) ==
    CASE c = "0" -> 0 [] c = "1" -> 1 [] c = "2" -> 2 [] c = "3" -> 3
      [] c = "4" -> 4 [] c = "5" -> 5 [] c = "6" -> 6 [] c = "7" -> 7
      [] c = "8" -> 8 [] c = "9" -> 9

RECURSIVE DigitsValue(_)
DigitsValue(ds) ==
    IF ds = <<>> THEN 0
    ELSE 10 * DigitsValue(SubSeq(ds, 1, Len(ds) - 1)) + DigitVal(ds[Len(ds)])

NaN == [nan |-> TRUE, val |-> 0]

\* parseInt(tok, 10): leading white space skipped, an optional sign, then the
\* longest run of digits; NaN when that run is empty.  Whatever follows the
\* digits is ignored.
parseInt(tok) ==
    LET a == SkipWs(tok, 1)
        signed == a <= Len(tok) /\ tok[a] \in {"+", "-"}
        b == IF signed THEN a + 1 ELSE a
        e == CHOOSE j \in (b - 1)..Len(tok) :
                 /\ \A k \in b..j : tok[k] \in Digits
                 /\ (j = Len(tok) \/ tok[j + 1] \notin Digits)
        mag == DigitsValue(SubSeq(tok, b, e))
    IN  IF e < b THEN NaN
        ELSE [nan |-> FALSE,
              val |-> IF signed /\ tok[a] = "-" THEN 0 - mag ELSE mag]

\* .map((n) => parseInt(n.trim(), 10)).filter((n) => !isNaN(n)) on the first
\* n tokens
RECURSIVE parsedTokens(_, _)
parsedTokens(toks, n) ==
    IF n = 0 THEN <<>>
    ELSE LET v == parseInt(Trim(toks[n]))
         IN  IF v.nan THEN parsedTokens(toks, n - 1)
             ELSE Append(parsedTokens(toks, n - 1), v.val)

\* group.split(",").map((n) => parseInt(n.trim(), 10)).filter((n) => !isNaN(n))
parseCitations(group) == parsedTokens(Split(group), Len(Split(group)))

\* One pass of the streaming loop body on a fragment: the citations after the
\* fragment and the event written for it.
citationsAfter(citations, text) ==
    LET m == FirstMatch(text, 1)
    IN  IF m.ok THEN parseCitations(m.group) ELSE citations

streamEvent(citations, text) ==
    [text |-> cleanText(text), citations |-> citationsAfter(citations, text)]

(***************************************************************************)
(* Ranking: cosineSimilarity, Array.prototype.sort, slice                  *)
(***************************************************************************)

\* A score is the float the code computes, kept exact: NaN, or the number
\* num / sqrt(den) with den > 0.  On the small integer vectors of the model
\* two scores computed against one query are equal as floats exactly when
\* they are equal as reals, so comparing the exact values is comparing the
\* floats.
NaNScore == [nan |-> TRUE, num |-> 0, den |-> 1]

RECURSIVE SumTo(_, _)
SumTo(f, n) == IF n = 0 THEN 0 ELSE f[n] + SumTo(f, n - 1)

\* cosineSimilarity(vecA, vecB).  The loop runs over vecA's indices only: a
\* shorter vecB reads undefined (NaN in every sum), a longer one is cut; a
\* zero norm divides 0 by 0.
cosineSimilarity(vecA, vecB) ==
    IF Len(vecB) < Len(vecA) THEN NaNScore
    ELSE LET n == Len(vecA)
             dot == SumTo([i \in 1..n |-> vecA[i] * vecB[i]], n)
             normA == SumTo([i \in 1..n |-> vecA[i] * vecA[i]], n)
             normB == SumTo([i \in 1..n |-> vecB[i] * vecB[i]], n)
         IN  IF normA * normB = 0 THEN NaNScore
             ELSE [nan |-> FALSE, num |-> dot, den |-> normA * normB]

Sign(x) == IF x > 0 THEN 1 ELSE IF x < 0 THEN 0 - 1 ELSE 0

\* The sign of s - t for two scores that are numbers
ScoreCmp(s, t) ==
    Sign(Sign(s.num) * s.num * s.num * t.den - Sign(t.num) * t.num * t.num * s.den)

ScoreLess(s, t) == ~s.nan /\ ~t.nan /\ ScoreCmp(s, t) < 0
ScoreEq(s, t) == ~s.nan /\ ~t.nan /\ ScoreCmp(s, t) = 0
ScoreIsZero(s) == ~s.nan /\ s.num = 0

\* The comparator (a, b) => b.score - a.score as the sort sees it: its sign,
\* and 0 when the difference is NaN.
compareFn(a, b) ==
    IF a.score.nan \/ b.score.nan THEN 0 ELSE ScoreCmp(b.score, a.score)

Reverse(w) == [i \in 1..Len(w) |-> w[Len(w) + 1 - i]]

\* The length of the run that starts the array and whether it descends
\* (every element strictly before its predecessor in the comparator's order)
CountRun(w) ==
    LET desc == compareFn(w[2], w[1]) < 0
        fits(idx) == IF desc THEN compareFn(w[idx], w[idx - 1]) < 0
                     ELSE compareFn(w[idx], w[idx - 1]) >= 0
        run == CHOOSE r \in 2..Len(w) :
                   /\ \A idx \in 3..r : fits(idx)
                   /\ (r = Len(w) \/ ~fits(r + 1))
    IN  [run |-> run, desc |-> desc]

\* BinarySearch with the test order <= 0: an equal pivot goes before
RECURSIVE BinarySearchUnstable(_, _, _, _)
BinarySearchUnstable(w, pivot, left, right) ==
    IF left >= right THEN left
    ELSE LET mid == left + ((right - left) \div 2)
         IN  IF compareFn(pivot, w[mid + 1]) <= 0
             THEN BinarySearchUnstable(w, pivot, left, mid)
             ELSE BinarySearchUnstable(w, pivot, mid + 1, right)

\* The insertion point of pivot in w[left+1 .. right] (0-based bounds)
RECURSIVE BinarySearch(_, _, _, _)
BinarySearch(w, pivot, left, right) ==
    IF left >= right THEN left
    ELSE LET mid == left + ((right - left) \div 2)
         IN  IF compareFn(pivot, w[mid + 1]) < 0
             THEN BinarySearch(w, pivot, left, mid)
             ELSE BinarySearch(w, pivot, mid + 1, right)

\* Binary insertion of w[start+1 ..] into the sorted prefix w[1 .. start]
RECURSIVE BinaryInsertionSort(_, _)
BinaryInsertionSort(w, start) ==
    IF start >= Len(w) THEN w
    ELSE LET pivot == w[start + 1]
             left == BinarySearch(w, pivot, 0, start)
             moved == SubSeq(w, 1, left) \o <<pivot>> \o SubSeq(w, left + 1, start)
                          \o SubSeq(w, start + 2, Len(w))
         IN  BinaryInsertionSort(moved, start + 1)

\* Array.prototype.sort(compareFn) as Node's engine runs it on an array
\* shorter than 64: the leading run is found (and reversed when it
\* descends), the rest is inserted by binary search.
sort(w) ==
    IF Len(w) < 2 THEN w
    ELSE LET cr == CountRun(w)
             made == IF cr.desc
                     THEN Reverse(SubSeq(w, 1, cr.run)) \o SubSeq(w, cr.run + 1, Len(w))
                     ELSE w
         IN  BinaryInsertionSort(made, cr.run)

\* The number of chunks kept for the prompt: .slice(0, 3)
TopK == 3

slice(w) == SubSeq(w, 1, IF Len(w) < TopK THEN Len(w) ELSE TopK)

\* embeddings.map(e => ({...e, score})): the index is copied, not changed
scored(embeddings, queryEmbedding) ==
    [i \in 1..Len(embeddings) |->
        [text |-> embeddings[i].text,
         embedding |-> embeddings[i].embedding,
         pageNumber |-> embeddings[i].pageNumber,
         score |-> cosineSimilarity(queryEmbedding, embeddings[i].embedding)]]

rank(embeddings, queryEmbedding) == slice(sort(scored(embeddings, queryEmbedding)))

(***************************************************************************)
(* State                                                                   *)
(***************************************************************************)

VARIABLES
    vectorStores,  \* the Map pdfId -> EmbeddingEntry[] of index.ts line 39
    issued,        \* the identifiers uuidv4() has returned so far
    up,            \* the /upload requests, one record per request
    ask            \* the /ask requests, one record per request

vars == <<vectorStores, issued, up, ask>>

\* Bounds of the model
MaxFragments == 3
MaxIndex == 4

Uploads == {"u1", "u2"}
Asks == {"a1"}
DocIds == {"d1", "d2", "d3"}
NoId == "none"

(***************************************************************************)
(* The embedding service: embeddingModel.embedContent(text)                *)
(***************************************************************************)

EmbedFail == [ok |-> FALSE, hasValues |-> FALSE, values |-> <<>>]
EmbedNoValues == [ok |-> TRUE, hasValues |-> FALSE, values |-> <<>>]
EmbedOf(v) == [ok |-> TRUE, hasValues |-> TRUE, values |-> v]

\* What a call may come back with: a rejection, a response that carries no
\* embedding values, or a vector of vs
ServiceResponses(vs) == {EmbedFail, EmbedNoValues} \cup {EmbedOf(v) : v \in vs}

\* response.embedding?.values || []
valuesOf(response) == IF response.hasValues THEN response.values ELSE <<>>

SmallVectors == {<<1, 0>>, <<0, 1>>}
RichVectors == {<<>>, <<0, 0>>, <<1, 0>>, <<0, 1>>, <<1, 1>>}

(***************************************************************************)
(* PDF files and extractTextByPage                                         *)
(***************************************************************************)

\* A text item of a page: its string and its baseline (transform[5])
Item(str, y) == [str |-> str, y |-> y]

\* Three pages: two lines of text, a page of white space, one line
PdfIntro ==
    << <<Item(<<"a">>, 2), Item(<<"b">>, 1)>>,
       <<Item(<<" ">>, 1)>>,
       <<Item(<<"c">>, 1)>> >>

\* One page, two items on one line
PdfOne == << <<Item(<<"b">>, 1), Item(<<"c">>, 1)>> >>

\* One page without text
PdfBlank == << <<>> >>

Files == {PdfIntro, PdfOne, PdfBlank}
\* req.file of a request that carries no file
NoFile == <<>>

\* The pagerender callback: items joined by a space, a line break where the
\* baseline changes, then white space normalized
RECURSIVE joinItems(_, _)
joinItems(items, n) ==
    IF n = 0 THEN <<>>
    ELSE joinItems(items, n - 1)
         \o (IF n = 1 \/ items[n - 1].y = items[n].y THEN <<>> ELSE <<"\n">>)
         \o items[n].str \o <<" ">>

pagerender(items) == Normalize(joinItems(items, Len(items)))

\* pages.map((text, idx) => ({ pageNumber: idx + 1, text }))
extractTextByPage(file) ==
    [idx \in 1..Len(file) |-> [pageNumber |-> idx, text |-> pagerender(file[idx])]]

(***************************************************************************)
(* POST /upload                                                            *)
(***************************************************************************)

NoResponse == [status |-> 0, error |-> "", pdfId |-> NoId]

\* embedCalls are the texts passed to embedContent, embedReturns the vectors
\* read from its responses, in call order
UploadIdle ==
    [pc |-> "idle", file |-> NoFile, pdfData |-> <<>>, i |-> 0, pdfId |-> NoId,
     embeddings |-> <<>>, embedCalls |-> <<>>, embedReturns |-> <<>>,
     res |-> NoResponse]

\* const pageText = pdfData[i].text.replace(/\s+/g, " ").trim()
pageTextOf(pdfData, i) == Normalize(pdfData[i].text)

\* nextPage without the test if (!pageText) continue
nextPageNoSkip(pdfData, i) == i

\* The loop from index i on, up to the next page it does not skip
\* (if (!pageText) continue): that page's index, or Len + 1 at the end
nextPage(pdfData, i) ==
    CHOOSE j \in i..(Len(pdfData) + 1) :
        /\ \A k \in i..(j - 1) : pageTextOf(pdfData, k) = <<>>
        /\ (j = Len(pdfData) + 1 \/ pageTextOf(pdfData, j) # <<>>)

\* vectorStores.set(pdfId, embeddings)
storeSet(store, pdfId, embeddings) ==
    [d \in (DOMAIN store) \cup {pdfId} |->
        IF d = pdfId THEN embeddings ELSE store[d]]

\* uploadLoop with vectorStores.set moved into the loop, after each push
uploadLoopIncremental(u, rec, i, embeddings) ==
    LET j == nextPage(rec.pdfData, i)
    IN  /\ vectorStores' = storeSet(vectorStores, rec.pdfId, embeddings)
        /\ IF j <= Len(rec.pdfData)
           THEN up' = [up EXCEPT ![u] =
                        [rec EXCEPT !.pc = "embedding", !.i = j,
                                    !.embeddings = embeddings,
                                    !.embedCalls =
                                        Append(@, pageTextOf(rec.pdfData, j))]]
           ELSE up' = [up EXCEPT ![u] =
                        [rec EXCEPT !.pc = "done", !.i = j,
                                    !.embeddings = embeddings,
                                    !.res = [status |-> 200, error |-> "",
                                             pdfId |-> rec.pdfId]]]

\* uploadLoop with res.json({ pdfId }) sent before the pages are embedded
uploadLoopRespondsFirst(u, rec, i, embeddings) ==
    LET j == nextPage(rec.pdfData, i)
    IN  IF j <= Len(rec.pdfData)
        THEN /\ up' = [up EXCEPT ![u] =
                        [rec EXCEPT !.pc = "embedding", !.i = j,
                                    !.embeddings = embeddings,
                                    !.embedCalls =
                                        Append(@, pageTextOf(rec.pdfData, j)),
                                    !.res = [status |-> 200, error |-> "",
                                             pdfId |-> rec.pdfId]]]
             /\ UNCHANGED vectorStores
        ELSE /\ up' = [up EXCEPT ![u] =
                        [rec EXCEPT !.pc = "done", !.i = j,
                                    !.embeddings = embeddings,
                                    !.res = [status |-> 200, error |-> "",
                                             pdfId |-> rec.pdfId]]]
             /\ vectorStores' = storeSet(vectorStores, rec.pdfId, embeddings)

\* The page loop run from index i with the entries collected so far, up to
\* its next await (the embedContent call for a page with text) or, past the
\* last page, through vectorStores.set and res.json({ pdfId, fileUrl })
uploadLoop(u, rec, i, embeddings) ==
    LET j == nextPage(rec.pdfData, i)
    IN  IF j <= Len(rec.pdfData)
        THEN /\ up' = [up EXCEPT ![u] =
                        [rec EXCEPT !.pc = "embedding", !.i = j,
                                    !.embeddings = embeddings,
                                    !.embedCalls =
                                        Append(@, pageTextOf(rec.pdfData, j))]]
             /\ UNCHANGED vectorStores
        ELSE /\ up' = [up EXCEPT ![u] =
                        [rec EXCEPT !.pc = "done", !.i = j,
                                    !.embeddings = embeddings,
                                    !.res = [status |-> 200, error |-> "",
                                             pdfId |-> rec.pdfId]]]
             /\ vectorStores' = storeSet(vectorStores, rec.pdfId, embeddings)

\* uploadFailed with the entries collected so far stored before the response
uploadFailedKeepsPartial(u) ==
    /\ up' = [up EXCEPT ![u].pc = "done",
                        ![u].res = [status |-> 500,
                                    error |-> "PDF processing failed",
                                    pdfId |-> NoId]]
    /\ vectorStores' = IF up[u].pdfId = NoId THEN vectorStores
                       ELSE storeSet(vectorStores, up[u].pdfId, up[u].embeddings)
    /\ UNCHANGED issued

\* The catch block of the handler: res.status(500).json(...)
uploadFailed(u) ==
    /\ up' = [up EXCEPT ![u].pc = "done",
                        ![u].res = [status |-> 500,
                                    error |-> "PDF processing failed",
                                    pdfId |-> NoId]]
    /\ UNCHANGED <<vectorStores, issued>>

\* A request arrives: without a file it is answered 400; with one, the
\* handler awaits extractTextByPage
UploadStart(u) ==
    /\ up[u].pc = "idle"
    /\ \/ up' = [up EXCEPT ![u].pc = "done",
                           ![u].res = [status |-> 400,
                                          error |-> "No file uploaded",
                                          pdfId |-> NoId]]
       \/ \E f \in Files :
             up' = [up EXCEPT ![u].pc = "extracting", ![u].file = f]
    /\ UNCHANGED <<vectorStores, issued, ask>>

\* UploadExtracted with the identifier taken from the request (one fixed
\* name) instead of uuidv4()
UploadExtractedFixedId(u) ==
    /\ up[u].pc = "extracting"
    /\ issued' = issued \cup {"d1"}
    /\ uploadLoop(u, [up[u] EXCEPT !.pdfData = extractTextByPage(up[u].file),
                                   !.pdfId = "d1"], 1, <<>>)
    /\ UNCHANGED ask

\* extractTextByPage resolves: the identifier is drawn and the page loop runs
\* to its first await.  The result is always an array, so the branch
\* if (!pdfData) is never taken.  uuidv4() is taken to return an identifier
\* it has not returned before.
UploadExtracted(u) ==
    /\ up[u].pc = "extracting"
    /\ \E id \in DocIds \ issued :
          /\ issued' = issued \cup {id}
          /\ uploadLoop(u, [up[u] EXCEPT !.pdfData = extractTextByPage(up[u].file),
                                         !.pdfId = id], 1, <<>>)
    /\ UNCHANGED ask

\* extractTextByPage throws (the file cannot be read or parsed)
UploadExtractFailed(u) ==
    /\ up[u].pc = "extracting"
    /\ uploadFailed(u)
    /\ UNCHANGED ask

\* UploadEmbedded with the entries of the uploads in flight pushed to one
\* array shared by all requests
UploadEmbeddedShared(u) ==
    /\ up[u].pc = "embedding"
    /\ \E response \in ServiceResponses(SmallVectors) \ {EmbedFail} :
          LET others == {v \in Uploads \ {u} : up[v].pc = "embedding"}
              array == IF others = {} THEN up[u].embeddings
                       ELSE up[CHOOSE v \in others : TRUE].embeddings \o up[u].embeddings
          IN  uploadLoop(u, [up[u] EXCEPT !.embedReturns = Append(@, valuesOf(response))],
                         up[u].i + 1,
                         Append(array,
                                [text |-> pageTextOf(up[u].pdfData, up[u].i),
                                 embedding |-> valuesOf(response),
                                 pageNumber |-> up[u].pdfData[up[u].i].pageNumber]))
    /\ UNCHANGED <<issued, ask>>

\* embedContent resolves for page i: the entry is pushed and the loop goes on
UploadEmbedded(u) ==
    /\ up[u].pc = "embedding"
    /\ \E response \in ServiceResponses(SmallVectors) \ {EmbedFail} :
          uploadLoop(u, [up[u] EXCEPT !.embedReturns = Append(@, valuesOf(response))],
                     up[u].i + 1,
                     Append(up[u].embeddings,
                            [text |-> pageTextOf(up[u].pdfData, up[u].i),
                             embedding |-> valuesOf(response),
                             pageNumber |-> up[u].pdfData[up[u].i].pageNumber]))
    /\ UNCHANGED <<issued, ask>>

\* embedContent rejects for page i
UploadEmbedFailed(u) ==
    /\ up[u].pc = "embedding"
    /\ uploadFailed(u)
    /\ UNCHANGED ask

(***************************************************************************)
(* POST /ask                                                               *)
(***************************************************************************)

\* The texts the generation service streams.  ShortAnswers serve the runs
\* that interleave requests; MarkedAnswers carry citation markers.
ShortAnswers == {<<"o", "k">>}

Marker12 ==
    <<"C", "i", "t", "a", "t", "i", "o", "n", "s", ":", " ", "[", "1", ",", " ", "2", "]">>
Marker3 == <<"c", "i", "t", "a", "t", "i", "o", "n", "s", ":", "[", "3", "]">>

\* An answer that states its citations twice
TwoMarkers == Marker3 \o <<" ">> \o Marker12

MarkedAnswers ==
    {<<"4", "2", ".", " ">> \o Marker12, <<"n", "o", "\n">> \o Marker3, TwoMarkers}

AskIdle ==
    [pc |-> "idle", pdfId |-> NoId, embeddings |-> <<>>, queryEmbedding |-> <<>>,
     ranked |-> <<>>, embedCalls |-> 0, generateCalls |-> 0,
     remaining |-> <<>>, fragments |-> <<>>, citations |-> <<>>,
     events |-> <<>>, contentType |-> "", status |-> 0, error |-> "",
     ended |-> FALSE, destroyed |-> FALSE, failedAt |-> ""]

\* res.status(500).json({ error: "Query failed" }) in the catch block, while
\* nothing of the response has been sent yet
queryFailed(a, where) ==
    ask' = [ask EXCEPT ![a].pc = "done", ![a].status = 500,
                       ![a].error = "Query failed", ![a].ended = TRUE,
                       ![a].failedAt = where]

\* AskStart with the question embedded before the lookup
AskStartEmbedsFirst(a) ==
    /\ ask[a].pc = "idle"
    /\ \E id \in DocIds :
          IF id \notin DOMAIN vectorStores
          THEN ask' = [ask EXCEPT ![a].pc = "done", ![a].pdfId = id,
                                  ![a].status = 404,
                                  ![a].error = "PDF not found",
                                  ![a].ended = TRUE,
                                  ![a].embedCalls = @ + 1]
          ELSE ask' = [ask EXCEPT ![a].pc = "embedding", ![a].pdfId = id,
                                  ![a].embeddings = vectorStores[id],
                                  ![a].embedCalls = @ + 1]
    /\ UNCHANGED <<vectorStores, issued, up>>

\* A request arrives: vectorStores.get(pdfId); 404 when absent, else the
\* handler awaits the embedding of the question
AskStart(a) ==
    /\ ask[a].pc = "idle"
    /\ \E id \in DocIds :
          IF id \notin DOMAIN vectorStores
          THEN ask' = [ask EXCEPT ![a].pc = "done", ![a].pdfId = id,
                                  ![a].status = 404,
                                  ![a].error = "PDF not found",
                                  ![a].ended = TRUE]
          ELSE ask' = [ask EXCEPT ![a].pc = "embedding", ![a].pdfId = id,
                                  ![a].embeddings = vectorStores[id],
                                  ![a].embedCalls = @ + 1]
    /\ UNCHANGED <<vectorStores, issued, up>>

\* AskEmbedded with res.setHeader moved before the generateContentStream call
AskEmbeddedHeaderFirst(a, vs) ==
    /\ ask[a].pc = "embedding"
    /\ \E response \in ServiceResponses(vs) \ {EmbedFail} :
          ask' = [ask EXCEPT ![a].pc = "generating",
                             ![a].queryEmbedding = valuesOf(response),
                             ![a].ranked = rank(ask[a].embeddings, valuesOf(response)),
                             ![a].generateCalls = @ + 1,
                             ![a].contentType = "text/event-stream"]
    /\ UNCHANGED <<vectorStores, issued, up>>

\* AskEmbedded with the stored array sorted in place (no map before sort)
AskEmbeddedSortsInPlace(a, vs) ==
    /\ ask[a].pc = "embedding"
    /\ \E response \in ServiceResponses(vs) \ {EmbedFail} :
          LET sorted == sort(scored(ask[a].embeddings, valuesOf(response)))
          IN  /\ ask' = [ask EXCEPT ![a].pc = "generating",
                                    ![a].queryEmbedding = valuesOf(response),
                                    ![a].ranked = slice(sorted),
                                    ![a].generateCalls = @ + 1]
              /\ vectorStores' =
                     [vectorStores EXCEPT ![ask[a].pdfId] =
                         [n \in 1..Len(sorted) |->
                             [text |-> sorted[n].text,
                              embedding |-> sorted[n].embedding,
                              pageNumber |-> sorted[n].pageNumber]]]
    /\ UNCHANGED <<issued, up>>

\* embedContent(question) resolves: the chunks are ranked, the prompt is
\* built and the handler awaits generateContentStream
AskEmbedded(a, vs) ==
    /\ ask[a].pc = "embedding"
    /\ \E response \in ServiceResponses(vs) \ {EmbedFail} :
          ask' = [ask EXCEPT ![a].pc = "generating",
                             ![a].queryEmbedding = valuesOf(response),
                             ![a].ranked = rank(ask[a].embeddings, valuesOf(response)),
                             ![a].generateCalls = @ + 1]
    /\ UNCHANGED <<vectorStores, issued, up>>

\* embedContent(question) rejects
AskEmbedFailed(a) ==
    /\ ask[a].pc = "embedding"
    /\ queryFailed(a, "embed")
    /\ UNCHANGED <<vectorStores, issued, up>>

\* generateContentStream resolves: the Content-Type header is set and the
\* loop awaits the first fragment.  remaining is the text the service has
\* yet to deliver.
AskGenerated(a, texts) ==
    /\ ask[a].pc = "generating"
    /\ \E t \in texts :
          ask' = [ask EXCEPT ![a].pc = "streaming", ![a].remaining = t,
                             ![a].contentType = "text/event-stream"]
    /\ UNCHANGED <<vectorStores, issued, up>>

\* generateContentStream rejects
AskGenerateFailed(a) ==
    /\ ask[a].pc = "generating"
    /\ queryFailed(a, "generate")
    /\ UNCHANGED <<vectorStores, issued, up>>

\* The lengths the next fragment of the generation stream may have: any cut
\* of the remaining text, the last of MaxFragments fragments taking all of it
fragmentLengths(remaining, received) ==
    {n \in 1..Len(remaining) : received + 1 < MaxFragments \/ n = Len(remaining)}

\* AskChunk with the write skipped when the cleaned text is empty
AskChunkSkipsEmpty(a) ==
    /\ ask[a].pc = "streaming"
    /\ \E n \in fragmentLengths(ask[a].remaining, Len(ask[a].fragments)) :
          LET text == SubSeq(ask[a].remaining, 1, n)
              ev == streamEvent(ask[a].citations, text)
          IN  ask' = [ask EXCEPT
                         ![a].remaining = SubSeq(@, n + 1, Len(@)),
                         ![a].fragments = Append(@, text),
                         ![a].citations = ev.citations,
                         ![a].events = IF ev.text = <<>> THEN @ ELSE Append(@, ev),
                         ![a].status = 200]
    /\ UNCHANGED <<vectorStores, issued, up>>

\* AskChunk with citations declared once for all requests instead of inside
\* the handler
AskChunkSharedCitations(a) ==
    /\ ask[a].pc = "streaming"
    /\ \E n \in fragmentLengths(ask[a].remaining, Len(ask[a].fragments)) :
          LET text == SubSeq(ask[a].remaining, 1, n)
              set == {b \in DOMAIN ask : ask[b].citations # <<>>}
              shared == IF set = {} THEN <<>>
                        ELSE ask[CHOOSE b \in set : TRUE].citations
              ev == streamEvent(shared, text)
          IN  ask' = [ask EXCEPT
                         ![a].remaining = SubSeq(@, n + 1, Len(@)),
                         ![a].fragments = Append(@, text),
                         ![a].citations = ev.citations,
                         ![a].events = Append(@, ev),
                         ![a].status = 200]
    /\ UNCHANGED <<vectorStores, issued, up>>

\* The stream yields its next fragment; the loop body scans it and writes
\* one event.  The first write sends the headers, status 200.
AskChunk(a) ==
    /\ ask[a].pc = "streaming"
    /\ \E n \in fragmentLengths(ask[a].remaining, Len(ask[a].fragments)) :
          LET text == SubSeq(ask[a].remaining, 1, n)
              ev == streamEvent(ask[a].citations, text)
          IN  ask' = [ask EXCEPT
                         ![a].remaining = SubSeq(@, n + 1, Len(@)),
                         ![a].fragments = Append(@, text),
                         ![a].citations = ev.citations,
                         ![a].events = Append(@, ev),
                         ![a].status = 200]
    /\ UNCHANGED <<vectorStores, issued, up>>

\* The stream ends: res.end()
AskStreamEnd(a) ==
    /\ ask[a].pc = "streaming"
    /\ ask[a].remaining = <<>>
    /\ ask' = [ask EXCEPT ![a].pc = "done", ![a].status = 200, ![a].ended = TRUE]
    /\ UNCHANGED <<vectorStores, issued, up>>

\* The stream throws instead of yielding.  The catch block calls
\* res.status(500).json(...): before any write that sends the 500 response;
\* after a write the headers are out, json throws and the handler ends with
\* the response neither ended nor changed.
AskStreamFailed(a) ==
    /\ ask[a].pc = "streaming"
    /\ IF ask[a].events = <<>>
       THEN queryFailed(a, "stream")
       ELSE ask' = [ask EXCEPT ![a].pc = "rejected", ![a].failedAt = "stream"]
    /\ UNCHANGED <<vectorStores, issued, up>>

\* What becomes of a response the handler left open depends on the runtime
\* around it: some tear the connection down, some never do.
AskSocketDestroyed(a) ==
    /\ ask[a].pc = "rejected"
    /\ ~ask[a].destroyed
    /\ ask' = [ask EXCEPT ![a].destroyed = TRUE]
    /\ UNCHANGED <<vectorStores, issued, up>>

(***************************************************************************)
(* Specifications                                                          *)
(***************************************************************************)

\* The server after start-up: an empty store, requests not yet received
Init ==
    /\ vectorStores = [d \in {} |-> <<>>]
    /\ issued = {}
    /\ up = [u \in Uploads |-> UploadIdle]
    /\ ask = [a \in Asks |-> AskIdle]

Next ==
    \/ \E u \in Uploads :
          \/ UploadStart(u)
          \/ UploadExtracted(u)
          \/ UploadExtractFailed(u)
          \/ UploadEmbedded(u)
          \/ UploadEmbedFailed(u)
    \/ \E a \in Asks :
          \/ AskStart(a)
          \/ AskEmbedded(a, SmallVectors)
          \/ AskEmbedFailed(a)
          \/ AskGenerated(a, ShortAnswers)
          \/ AskGenerateFailed(a)
          \/ AskChunk(a)
          \/ AskStreamEnd(a)
          \/ AskStreamFailed(a)
          \/ AskSocketDestroyed(a)

Spec == Init /\ [][Next]_vars

\* The server with one document stored, the state a completed upload of
\* PdfOne leaves (a state Spec reaches), and the generation service
\* streaming answers that end with a citation marker.
StoredOne ==
    [text |-> pagerender(PdfOne[1]), embedding |-> <<1, 0>>, pageNumber |-> 1]

InitStream ==
    /\ vectorStores = [d \in {"d1"} |-> <<StoredOne>>]
    /\ issued = {"d1"}
    /\ up = [u \in Uploads |->
                IF u = "u1"
                THEN [pc |-> "done", file |-> PdfOne,
                      pdfData |-> extractTextByPage(PdfOne), i |-> 2,
                      pdfId |-> "d1", embeddings |-> <<StoredOne>>,
                      embedCalls |-> <<StoredOne.text>>,
                      embedReturns |-> <<StoredOne.embedding>>,
                      res |-> [status |-> 200, error |-> "", pdfId |-> "d1"]]
                ELSE UploadIdle]
    /\ ask = [a \in Asks |-> AskIdle]

NextStream ==
    \E a \in Asks :
        \/ AskStart(a)
        \/ AskEmbedded(a, SmallVectors)
        \/ AskEmbedFailed(a)
        \/ AskGenerated(a, MarkedAnswers)
        \/ AskGenerateFailed(a)
        \/ AskChunk(a)
        \/ AskStreamEnd(a)
        \/ AskStreamFailed(a)
        \/ AskSocketDestroyed(a)

SpecStream == InitStream /\ [][NextStream]_vars

\* Ranking on every index of at most MaxIndex entries with embeddings drawn
\* from RichVectors, pages numbered in insertion order
RECURSIVE SeqsUpTo(_, _)
SeqsUpTo(S, n) ==
    IF n = 0 THEN {<<>>}
    ELSE LET shorter == SeqsUpTo(S, n - 1)
         IN  shorter \cup {Append(w, x) : w \in {v \in shorter : Len(v) = n - 1}, x \in S}

IndexOf(vecs) ==
    [i \in 1..Len(vecs) |-> [text |-> <<"p">>, embedding |-> vecs[i], pageNumber |-> i]]

InitRank ==
    /\ \E vecs \in SeqsUpTo(RichVectors, MaxIndex) :
          vectorStores = [d \in {"d1"} |-> IndexOf(vecs)]
    /\ issued = {"d1"}
    /\ up = [u \in Uploads |-> UploadIdle]
    /\ ask = [a \in Asks |-> AskIdle]

NextRank ==
    \E a \in Asks :
        \/ AskStart(a)
        \/ AskEmbedded(a, RichVectors)
        \/ AskEmbedFailed(a)

SpecRank == InitRank /\ [][NextRank]_vars

\* One ask against the stored document, the generation service streaming
\* answers without a marker, and the handler's own steps taken whenever they
\* stay possible: the event loop runs every continuation whose await has
\* settled, and the services settle every call.  Nothing in the code makes
\* the runtime tear down a response the handler left open, so that step gets
\* no fairness.
PlainAnswers == ShortAnswers \cup {<<"p", "a", "g", "e", " ", "2">>}

Progress ==
    \E a \in Asks :
        \/ AskStart(a)
        \/ AskEmbedded(a, SmallVectors)
        \/ AskEmbedFailed(a)
        \/ AskGenerated(a, PlainAnswers)
        \/ AskGenerateFailed(a)
        \/ AskChunk(a)
        \/ AskStreamEnd(a)
        \/ AskStreamFailed(a)

NextAsk == Progress \/ \E a \in Asks : AskSocketDestroyed(a)

FairSpecAsk == InitStream /\ [][NextAsk]_vars /\ WF_vars(Progress)

\* One ask against the stored document, the generation service streaming
\* answers whose marker lists one or two tokens of ParseTokens: integers,
\* a word, digits followed by a letter, an integer within white space.
ParseTokens == {<<"1">>, <<"x">>, <<"2", "x">>, <<" ", "3", " ">>}

MarkerOpen == <<"C", "i", "t", "a", "t", "i", "o", "n", "s", ":", " ", "[">>

ParseAnswers ==
    {<<"a">> \o MarkerOpen \o g \o <<"]", "b">> :
        g \in ParseTokens \cup {t \o <<",">> \o v : t \in ParseTokens, v \in ParseTokens}}

NextParse ==
    \E a \in Asks :
        \/ AskStart(a)
        \/ AskEmbedded(a, SmallVectors)
        \/ AskGenerated(a, ParseAnswers)
        \/ AskChunk(a)
        \/ AskStreamEnd(a)

SpecParse == InitStream /\ [][NextParse]_vars

\* Two asks against the stored document, interleaved at every await: the
\* generation service streams an answer that ends with a marker to the
\* first and an answer without one to the second.
TwoAsks == {"a1", "a2"}

MarkedShort == {<<"n", "o", "\n">> \o Marker3}

InitTwoAsks ==
    /\ vectorStores = [d \in {"d1"} |-> <<StoredOne>>]
    /\ issued = {"d1"}
    /\ up = [u \in Uploads |->
                IF u = "u1"
                THEN [pc |-> "done", file |-> PdfOne,
                      pdfData |-> extractTextByPage(PdfOne), i |-> 2,
                      pdfId |-> "d1", embeddings |-> <<StoredOne>>,
                      embedCalls |-> <<StoredOne.text>>,
                      embedReturns |-> <<StoredOne.embedding>>,
                      res |-> [status |-> 200, error |-> "", pdfId |-> "d1"]]
                ELSE UploadIdle]
    /\ ask = [a \in TwoAsks |-> AskIdle]

NextTwoAsks ==
    \/ AskGenerated("a1", MarkedShort)
    \/ AskGenerated("a2", ShortAnswers)
    \/ \E a \in TwoAsks :
          \/ AskStart(a)
          \/ AskEmbedded(a, SmallVectors)
          \/ AskEmbedFailed(a)
          \/ AskGenerateFailed(a)
          \/ AskChunk(a)
          \/ AskStreamEnd(a)
          \/ AskStreamFailed(a)
          \/ AskSocketDestroyed(a)

SpecTwoAsks == InitTwoAsks /\ [][NextTwoAsks]_vars

(***************************************************************************)
(* Claims                                                                  *)
(***************************************************************************)

CitationsLiteral == <<"C", "i", "t", "a", "t", "i", "o", "n", "s", ":">>

\* The text ends with a citation marker and holds no other
EndsWithOneMarker(full) ==
    LET m == FirstMatch(full, 1)
    IN  m.ok /\ m.to = Len(full) /\ ~FirstMatch(full, m.from + 1).ok

eventTexts(a) == [i \in 1..Len(ask[a].events) |-> ask[a].events[i].text]

StreamEnded(a) == ask[a].pc = "done" /\ ask[a].status = 200 /\ ask[a].failedAt = ""

\* C1: when the streamed answer, however it was cut into fragments, ends with
\* one citation marker, the response ends with the citations of the marker
\* and the emitted text deltas together do not contain "Citations:".
C1_SplitMarkerParsed ==
    \A a \in Asks :
        (StreamEnded(a) /\ EndsWithOneMarker(Concat(ask[a].fragments))) =>
            /\ ask[a].citations =
                   parseCitations(FirstMatch(Concat(ask[a].fragments), 1).group)
            /\ ~Contains(Concat(eventTexts(a)), CitationsLiteral)

\* The pages of an upload's document that have text
pagesWithText(u) ==
    {k \in 1..Len(up[u].pdfData) : pageTextOf(up[u].pdfData, k) # <<>>}

IsCompleteIndex(u, index) == Len(index) = Cardinality(pagesWithText(u))

\* C2: the store never holds, and no ask ever gets, an index of an upload
\* that lacks some of the upload's records: an ask for the identifier of an
\* upload in flight gets "not found" or the complete index.
C2_NoPartialIndexVisible ==
    \A u \in Uploads :
        up[u].pdfId # NoId =>
            /\ up[u].pdfId \in DOMAIN vectorStores =>
                   (up[u].pc = "done" /\ IsCompleteIndex(u, vectorStores[up[u].pdfId]))
            /\ \A a \in Asks :
                   (ask[a].pc # "idle" /\ ask[a].pdfId = up[u].pdfId) =>
                       (ask[a].status = 404 \/ IsCompleteIndex(u, ask[a].embeddings))

C2_Witness ==
    \E u \in Uploads, a \in Asks :
        /\ up[u].pc = "embedding"
        /\ Len(up[u].embeddings) >= 1
        /\ ask[a].pdfId = up[u].pdfId
        /\ ask[a].status = 404

\* C3: an upload that ends with the processing-failure response has no entry
\* in the store, and the step that fails leaves the store as it was.
C3_FailedUploadLeavesStore ==
    [][\A u \in Uploads :
          up'[u].res.status = 500 =>
              /\ up'[u].res.error = "PDF processing failed"
              /\ up'[u].pdfId \notin DOMAIN vectorStores'
              /\ up[u].res.status # 500 => vectorStores' = vectorStores]_vars

C3_Witness ==
    \E u \in Uploads :
        /\ up[u].res.status = 500
        /\ Len(up[u].embeddings) >= 1
        /\ DOMAIN vectorStores # {}

\* C4: an ask for an identifier that is not in the store ends with the
\* not-found response, and an ask so answered has made no call to the
\* embedding or the generation service and has opened no stream.
C4_NotFoundBeforeAnyCall ==
    [][\A a \in Asks :
          /\ (ask[a].pc = "idle" /\ ask'[a].pc # "idle"
                /\ ask'[a].pdfId \notin DOMAIN vectorStores) =>
                 (ask'[a].status = 404 /\ ask'[a].pc = "done" /\ ask'[a].ended)
          /\ ask'[a].status = 404 =>
                 /\ ask'[a].embedCalls = 0
                 /\ ask'[a].generateCalls = 0
                 /\ ask'[a].contentType = ""
                 /\ ask'[a].events = <<>>
                 /\ ask'[a].pc = "done"]_vars

C4_Witness ==
    \E a \in Asks :
        /\ ask[a].status = 404
        /\ DOMAIN vectorStores # {}
        /\ ask[a].pdfId \in issued

\* The page numbers of a file whose normalized text is not empty, ascending
RECURSIVE keptPages(_, _)
keptPages(file, n) ==
    IF n = 0 THEN <<>>
    ELSE keptPages(file, n - 1)
         \o (IF Normalize(joinItems(file[n], Len(file[n]))) = <<>> THEN <<>> ELSE <<n>>)

\* C5: the index stored by a completed upload holds one record per page with
\* non-empty normalized text, in document order, with the page's 1-based
\* number and its text; the embedding service was called once for each of
\* these texts and never for an empty one.
C5_OneRecordPerNonEmptyPage ==
    \A u \in Uploads :
        /\ \A c \in DOMAIN up[u].embedCalls : up[u].embedCalls[c] # <<>>
        /\ (up[u].pc = "done" /\ up[u].res.status = 200) =>
              LET kept == keptPages(up[u].file, Len(up[u].file))
                  index == vectorStores[up[u].pdfId]
              IN  /\ Len(index) = Len(kept)
                  /\ \A n \in 1..Len(index) :
                        /\ index[n].pageNumber = kept[n]
                        /\ index[n].text =
                               Normalize(joinItems(up[u].file[kept[n]],
                                                   Len(up[u].file[kept[n]])))
                        /\ index[n].text # <<>>
                  /\ up[u].embedCalls = [n \in 1..Len(index) |-> index[n].text]

C5_Witness ==
    \E u \in Uploads :
        /\ up[u].pc = "done" /\ up[u].res.status = 200
        /\ up[u].file = PdfIntro
        /\ [n \in 1..Len(vectorStores[up[u].pdfId]) |->
               vectorStores[up[u].pdfId][n].pageNumber] = <<1, 3>>

Ranked(a) == ask[a].pc = "generating"

Min(x, y) == IF x < y THEN x ELSE y

\* The positions of the index that the ranked result holds
rankedPages(a) == {ask[a].ranked[i].pageNumber : i \in 1..Len(ask[a].ranked)}

\* C6: the ranked result has min(3, N) entries, each a record of the index
\* with its cosine score, no entry has a smaller score than a later one, and
\* no record left out has a greater score than one included.
C6_TopThreeByScore ==
    \A a \in Asks :
        Ranked(a) =>
            LET index == ask[a].embeddings
                ranked == ask[a].ranked
                all == scored(index, ask[a].queryEmbedding)
            IN  /\ Len(ranked) = Min(TopK, Len(index))
                /\ \A i \in 1..Len(ranked) : \E n \in 1..Len(index) : ranked[i] = all[n]
                /\ \A i, j \in 1..Len(ranked) :
                       i < j => ~ScoreLess(ranked[i].score, ranked[j].score)
                /\ \A n \in 1..Len(index) :
                       all[n].pageNumber \notin rankedPages(a) =>
                           \A i \in 1..Len(ranked) :
                               ~ScoreLess(ranked[i].score, all[n].score)

ZeroMagnitude(v) == \A i \in 1..Len(v) : v[i] = 0

\* C7: a record whose embedding, or whose query, has zero magnitude is
\* scored 0.
C7_ZeroMagnitudeScoresZero ==
    \A a \in Asks :
        Ranked(a) =>
            \A i \in 1..Len(ask[a].ranked) :
                (ZeroMagnitude(ask[a].queryEmbedding)
                    \/ ZeroMagnitude(ask[a].ranked[i].embedding)) =>
                    ScoreIsZero(ask[a].ranked[i].score)

\* C8: two records of the ranked result with equal scores stand in their
\* insertion order (the order of their page numbers in the index).
C8_TiesKeepInsertionOrder ==
    \A a \in Asks :
        Ranked(a) =>
            \A i, j \in 1..Len(ask[a].ranked) :
                (i < j /\ ScoreEq(ask[a].ranked[i].score, ask[a].ranked[j].score)) =>
                    ask[a].ranked[i].pageNumber < ask[a].ranked[j].pageNumber

C8_Witness ==
    \E a \in Asks :
        /\ Ranked(a)
        /\ Len(ask[a].ranked) = TopK
        /\ ScoreEq(ask[a].ranked[1].score, ask[a].ranked[2].score)
        /\ ask[a].ranked[1].pageNumber = 2
        /\ ask[a].ranked[2].pageNumber = 4

\* C9: an ask whose query embedding call or generation call fails ends with
\* the one error response "Query failed"; no event is written and the event
\* stream is not opened.
C9_CallFailureIsOneErrorResponse ==
    \A a \in Asks :
        ask[a].failedAt \in {"embed", "generate"} =>
            /\ ask[a].pc = "done"
            /\ ask[a].status = 500
            /\ ask[a].error = "Query failed"
            /\ ask[a].ended
            /\ ask[a].events = <<>>
            /\ ask[a].contentType = ""

C9_Witness ==
    \E a \in Asks :
        /\ ask[a].failedAt = "generate"
        /\ ask[a].status = 500
        /\ Len(ask[a].embeddings) >= 1

FailedMidStream(a) == ask[a].failedAt = "stream" /\ ask[a].events # <<>>

\* C10: after a failure of the generation stream that follows at least one
\* event, the events written stay as they are, no further event is written,
\* and the response is eventually closed.
C10_MidStreamFailureCloses ==
    /\ [][\A a \in Asks : FailedMidStream(a) => ask'[a].events = ask[a].events]_vars
    /\ \A a \in Asks : FailedMidStream(a) ~> (ask[a].ended \/ ask[a].destroyed)

\* C11: every fragment received has its one event, in the order of arrival
\* (the i-th event carries the i-th fragment's text without its markers); a
\* stream that ends without failure leaves the response ended with every
\* fragment delivered; once the response is ended it stays ended and no
\* event is added.
C11_OneEventPerFragmentThenClose ==
    /\ [](\A a \in DOMAIN ask :
             /\ Len(ask[a].events) = Len(ask[a].fragments)
             /\ \A i \in 1..Len(ask[a].events) :
                    ask[a].events[i].text = cleanText(ask[a].fragments[i])
             /\ StreamEnded(a) => (ask[a].ended /\ ask[a].remaining = <<>>))
    /\ [][\A a \in DOMAIN ask :
             ask[a].ended => (ask'[a].ended /\ ask'[a].events = ask[a].events)]_vars

C11_Witness ==
    \E a \in DOMAIN ask :
        /\ StreamEnded(a)
        /\ ask[a].ended
        /\ Len(ask[a].events) = 3
        /\ ask[a].events[1].text # ask[a].events[2].text
        /\ ask[a].events[3].text = <<>>

\* The last marker of a text, scanning left to right from position p
RECURSIVE LastMatchFrom(_, _, _)
LastMatchFrom(s, p, last) ==
    LET m == FirstMatch(s, p)
    IN  IF m.ok THEN LastMatchFrom(s, m.to + 1, m) ELSE last

\* The stream as received up to and including fragment i
streamUpTo(a, i) == Concat(SubSeq(ask[a].fragments, 1, i))

\* C12: the citations of every event are the empty list while the stream
\* received so far holds no marker, and else the list parsed from the last
\* marker of the stream received so far; a fragment without a marker that
\* follows an event with citations does not empty them.
C12_CitationsFollowLatestMarker ==
    \A a \in DOMAIN ask :
        \A i \in 1..Len(ask[a].events) :
            LET m == LastMatchFrom(streamUpTo(a, i), 1, NoMatch)
            IN  /\ ask[a].events[i].citations =
                       (IF m.ok THEN parseCitations(m.group) ELSE <<>>)
                /\ (/\ i > 1
                     /\ ask[a].events[i - 1].citations # <<>>
                     /\ ~FirstMatch(ask[a].fragments[i], 1).ok) =>
                        ask[a].events[i].citations # <<>>

\* A token that is an integer: after trimming, an optional sign and then
\* digits only
signedBody(tok) ==
    IF Trim(tok) # <<>> /\ Trim(tok)[1] \in {"+", "-"} THEN Tail(Trim(tok)) ELSE Trim(tok)

IsInteger(tok) ==
    /\ signedBody(tok) # <<>>
    /\ \A k \in 1..Len(signedBody(tok)) : signedBody(tok)[k] \in Digits

integerOf(tok) ==
    IF Trim(tok)[1] = "-" THEN 0 - DigitsValue(signedBody(tok))
    ELSE DigitsValue(signedBody(tok))

\* The integers among the first n tokens, in list order
RECURSIVE integersAmong(_, _)
integersAmong(toks, n) ==
    IF n = 0 THEN <<>>
    ELSE integersAmong(toks, n - 1)
         \o (IF IsInteger(toks[n]) THEN <<integerOf(toks[n])>> ELSE <<>>)

\* The fragment holds one complete marker
HasOneMarker(text) ==
    FirstMatch(text, 1).ok /\ ~FirstMatch(text, FirstMatch(text, 1).to + 1).ok

\* C13: for a fragment that holds one complete marker, the event's citations
\* are the integers among the marker's comma-separated tokens, in list
\* order, every other token skipped, and the event's text is the fragment
\* before the marker followed by the fragment after it.
C13_MarkerParsedAndStripped ==
    \A a \in DOMAIN ask :
        \A i \in 1..Len(ask[a].events) :
            HasOneMarker(ask[a].fragments[i]) =>
                LET text == ask[a].fragments[i]
                    m == FirstMatch(text, 1)
                    toks == Split(m.group)
                IN  /\ ask[a].events[i].citations = integersAmong(toks, Len(toks))
                    /\ ask[a].events[i].text =
                           SubSeq(text, 1, m.from - 1) \o SubSeq(text, m.to + 1, Len(text))

\* C14: all records of one stored index have embeddings of the same length,
\* whatever the embedding service returned on the calls that did not fail.
C14_OneEmbeddingLengthPerIndex ==
    \A d \in DOMAIN vectorStores :
        \A i, j \in 1..Len(vectorStores[d]) :
            Len(vectorStores[d][i].embedding) = Len(vectorStores[d][j].embedding)

\* C15: an upload has extracted its pages before it calls the embedding
\* service, has made one call per page with text before its index is in the
\* store, and has its index in the store before it answers with the
\* identifier; so an ask that arrives with an identifier some upload has
\* answered with is not answered "not found".
C15_PutBeforeIdentifierReturned ==
    /\ [](\A u \in Uploads :
             /\ up[u].embedCalls # <<>> =>
                    up[u].pdfData = extractTextByPage(up[u].file)
             /\ up[u].pdfId \in DOMAIN vectorStores =>
                    /\ Len(up[u].embedCalls) = Cardinality(pagesWithText(u))
                    /\ Len(vectorStores[up[u].pdfId]) = Len(up[u].embedCalls)
             /\ up[u].res.pdfId # NoId => up[u].res.pdfId \in DOMAIN vectorStores)
    /\ [][\A a \in DOMAIN ask : \A u \in Uploads :
             (/\ ask[a].pc = "idle"
              /\ ask'[a].pc # "idle"
              /\ up[u].res.pdfId # NoId
              /\ ask'[a].pdfId = up[u].res.pdfId) => ask'[a].status # 404]_vars

C15_Witness ==
    \E a \in DOMAIN ask : \E u, v \in Uploads :
        /\ up[u].res.status = 200
        /\ Len(up[u].embedCalls) = 2
        /\ up[v].pc = "embedding"
        /\ ask[a].pc = "embedding"
        /\ ask[a].pdfId = up[u].res.pdfId
        /\ Len(ask[a].embeddings) = 2

\* C16: no two uploads hold the same identifier, the store holds only
\* identifiers uuidv4() has returned, and an identifier that is in the store
\* is in the store after every step, with the same records in the same order.
C16_WrittenOnceNeverChanged ==
    /\ [](\A u, v \in Uploads :
             (u # v /\ up[u].pdfId # NoId) => up[u].pdfId # up[v].pdfId)
    /\ [](DOMAIN vectorStores \subseteq issued)
    /\ [][\A d \in DOMAIN vectorStores :
             d \in DOMAIN vectorStores' /\ vectorStores'[d] = vectorStores[d]]_vars

C16_Witness ==
    \E u, v \in Uploads :
        /\ u # v
        /\ up[u].res.status = 200 /\ up[v].res.status = 200
        /\ up[u].file = PdfIntro /\ up[v].file = PdfOne
        /\ Len(vectorStores[up[u].pdfId]) = 2
        /\ Len(vectorStores[up[v].pdfId]) = 1

\* The entries an upload has collected come from its own file: the n-th is
\* made of the text of the n-th call it made to the embedding service, the
\* vector that call returned, and the number of a page of its file that has
\* this text
OwnRecords(u, index) ==
    /\ Len(index) <= Len(up[u].embedReturns)
    /\ \A n \in 1..Len(index) :
           /\ index[n].text = up[u].embedCalls[n]
           /\ index[n].embedding = up[u].embedReturns[n]
           /\ index[n].pageNumber \in 1..Len(up[u].file)
           /\ index[n].text = pagerender(up[u].file[index[n].pageNumber])

\* C17: with uploads interleaved at their embedding calls, the entries every
\* upload has collected, and the index the store holds for it, are made of
\* its own pages, texts and returned embeddings only.
C17_InterleavedUploadsKeepOwnRecords ==
    \A u \in Uploads :
        /\ OwnRecords(u, up[u].embeddings)
        /\ up[u].pdfId \in DOMAIN vectorStores =>
               /\ vectorStores[up[u].pdfId] = up[u].embeddings
               /\ (up[u].pc = "done" /\ up[u].res.pdfId = up[u].pdfId)

\* Two uploads of different files, both suspended at an embedding call, the
\* first with an entry already collected
C17_Witness ==
    \E u, v \in Uploads :
        /\ up[u].pc = "embedding"
        /\ up[u].file = PdfIntro
        /\ Len(up[u].embeddings) = 1
        /\ up[u].embeddings[1].embedding = <<1, 0>>
        /\ up[v].pc = "embedding"
        /\ up[v].file = PdfOne

\* C18: every step of an ask request, whether it goes on, answers "not
\* found", fails or ends, leaves the store as it was: the same identifiers,
\* and for each the same records in the same order.
C18_AskLeavesStoreUnchanged ==
    [][(\E a \in DOMAIN ask : ask'[a] # ask[a]) =>
          /\ DOMAIN vectorStores' = DOMAIN vectorStores
          /\ \A d \in DOMAIN vectorStores : vectorStores'[d] = vectorStores[d]]_vars

\* An ask has ranked the second record of an index before the first, and the
\* store still holds them in insertion order
C18_Witness ==
    \E a \in DOMAIN ask :
        /\ ask[a].pc = "done" /\ ask[a].status = 200
        /\ Len(ask[a].ranked) = 2
        /\ ask[a].ranked[1].pageNumber = 3
        /\ ask[a].ranked[2].pageNumber = 1
        /\ vectorStores[ask[a].pdfId][1].pageNumber = 1
        /\ vectorStores[ask[a].pdfId][2].pageNumber = 3

\* C19: with two asks streaming interleaved, the events of each are those
\* its own fragments give, one after the other from empty citations; an ask
\* whose fragments hold no marker reports no citations, whatever the other
\* ask has seen.
C19_EventsDependOnOwnFragments ==
    \A a \in DOMAIN ask :
        /\ Len(ask[a].events) = Len(ask[a].fragments)
        /\ \A i \in 1..Len(ask[a].events) :
               ask[a].events[i] =
                   streamEvent(IF i = 1 THEN <<>> ELSE ask[a].events[i - 1].citations,
                               ask[a].fragments[i])
        /\ (\A i \in 1..Len(ask[a].fragments) : ~FirstMatch(ask[a].fragments[i], 1).ok) =>
               \A i \in 1..Len(ask[a].events) : ask[a].events[i].citations = <<>>

\* Both asks are streaming, the first has seen its marker, and the second
\* has written an event and has a fragment yet to come
C19_Witness ==
    /\ DOMAIN ask = TwoAsks
    /\ ask["a1"].pc = "streaming"
    /\ ask["a1"].citations = <<3>>
    /\ ask["a2"].pc = "streaming"
    /\ Len(ask["a2"].events) = 1
    /\ ask["a2"].remaining # <<>>

=============================================================================
